---- MODULE Spec2Model ----
(***************************************************************************)
(* Model of fixed_capacity_vec (src/src/lib.rs): a Vec split into a read   *)
(* view over its initialized elements and a FixedCapacityVec write view    *)
(* that appends to the same Vec until a fixed capacity is reached.         *)
(*                                                                         *)
(* A Vec is a record [elems, cap, ptr]: its elements, its allocated        *)
(* capacity and the identity of its allocation (a new identity on every    *)
(* reallocation).  Indices of slices are 0-based as in the source; the     *)
(* sequences holding the elements are 1-based as in TLA+.                  *)
(***************************************************************************)
EXTENDS Integers, Sequences, FiniteSets, TLC

MaxInitLen == 2     \* longest buffer before the split
MaxInitFree == 1    \* largest unused allocation before the split
MaxCapacity == 3    \* largest capacity asked of with_fixed_capacity
MaxBatch == 2       \* longest slice / iterator handed to the write view
MaxSlack == 1       \* most extra slots the allocator adds to a request

RoundTripLen == 4        \* vec![1, 2, 3, 4] of the crate example
RoundTripCapacity == 5   \* with_fixed_capacity(5) of the crate example

Items == {4, 9}     \* the values pushed (lib.rs:15 and lib.rs:214)

Max(a, b) == IF a >= b THEN a ELSE b

\* vec![1, .., n], the buffer contents before the split (lib.rs:12 for n = 4)
InitBuffer(n) == [i \in 1..n |-> i]

Batches == UNION {[1..n -> Items] : n \in 0..MaxBatch}

VARIABLES
    buffer,       \* the Vec: [elems, cap, ptr]
    start,        \* FixedCapacityVec.start
    max_len,      \* FixedCapacityVec.max_len
    init_slice,   \* the read view: [ptr, len] of slice::from_raw_parts_mut
    pc,           \* "unsplit", "split", "panicked", "dropped"
    panic_line,   \* the line of lib.rs whose assert failed, 0 if none
    capacity,     \* the argument of with_fixed_capacity
    split0,       \* history: the Vec as with_fixed_capacity returned it
    appended,     \* history: the items the write view appended, in order
    last,         \* history: the last call [op, arg] and the Vec before it, pre
    pushes,       \* history: number of push calls on the write view
    only_push,    \* history: every write-view call so far was a push
    only_push_before  \* history: only_push before the last call

vars == <<buffer, start, max_len, init_slice, pc, panic_line, capacity,
          split0, appended, last, pushes, only_push, only_push_before>>

--------------------------------------------------------------------------
(* std::vec::Vec, as far as the crate calls it *)

VecLen(v) == Len(v.elems)

\* The capacities Vec's growth may settle on for a required capacity:
\* the doubling of the amortized growth, or the request plus some slack.
GrowChoices(v, required) ==
    {Max(2 * v.cap, required)} \cup (required..(required + MaxSlack))

\* Vec::reserve(additional): nothing if the free space suffices, else a
\* reallocation to at least len + additional.
VecReserve(v, additional) ==
    IF v.cap - VecLen(v) >= additional
    THEN {v}
    ELSE {[v EXCEPT !.cap = c, !.ptr = @ + 1] :
              c \in GrowChoices(v, VecLen(v) + additional)}

\* Vec::push(item), called at lib.rs:149 and lib.rs:181
VecPush(v, item) ==
    {[w EXCEPT !.elems = Append(@, item)] : w \in VecReserve(v, 1)}

\* Vec::extend_from_slice(other), called at lib.rs:143
VecExtendFromSlice(v, other) ==
    {[w EXCEPT !.elems = @ \o other] : w \in VecReserve(v, Len(other))}

\* &v[lo..hi]: the indices (0-based) the slice covers; out-of-range panics
SliceIndex(v, lo, hi) ==
    IF lo <= hi /\ hi <= VecLen(v)
    THEN [panic |-> FALSE, idx |-> lo..(hi - 1)]
    ELSE [panic |-> TRUE, idx |-> {}]

\* &v[lo..]
SliceFrom(v, lo) == SliceIndex(v, lo, VecLen(v))

--------------------------------------------------------------------------
(* AsFixedCapacityVec for Vec<T> *)

\* What a call leaves behind: the Vec, the line of the failed assert (0 if
\* the call returned) and, for extend, the number of items it pushed.
Outcome(v, line, n) == [buffer |-> v, panic_line |-> line, taken |-> n]

\* Reserved without the assert of lib.rs:99
ReservedUnasserted(v, c) ==
    LET len == VecLen(v)
        free == v.cap - len
        grown == IF free < c THEN VecReserve(v, c - free) ELSE {v}
    IN  {Outcome(w, IF ~(w.cap - len >= c) THEN 94 ELSE 0, 0) : w \in grown}

\* Reserved asserting len > 0 at lib.rs:99 in place of capacity() > 0
ReservedChecksLen(v, c) ==
    LET len == VecLen(v)
        free == v.cap - len
        grown == IF free < c THEN VecReserve(v, c - free) ELSE {v}
    IN  {Outcome(w, IF ~(w.cap - len >= c) THEN 94
                    ELSE IF ~(len > 0) THEN 99
                    ELSE 0, 0) : w \in grown}

\* Reserved moving the elements to a fresh allocation of len + capacity
ReservedFresh(v, c) ==
    LET len == VecLen(v)
        grown == {[v EXCEPT !.cap = len + c, !.ptr = @ + 1]}
    IN  {Outcome(w, IF ~(w.cap - len >= c) THEN 94
                    ELSE IF ~(w.cap > 0) THEN 99
                    ELSE 0, 0) : w \in grown}

\* Reserved without the assert of lib.rs:94
ReservedNoRoomAssert(v, c) ==
    LET len == VecLen(v)
        free == v.cap - len
        grown == IF free < c THEN VecReserve(v, c - free) ELSE {v}
    IN  {Outcome(w, IF ~(w.cap > 0) THEN 99 ELSE 0, 0) : w \in grown}

\* with_fixed_capacity up to its two asserts: the Vec after the reservation
\* and the assert that fails on it, if one does.
Reserved(v, c) ==
    LET len == VecLen(v)
        free == v.cap - len
        grown == IF free < c THEN VecReserve(v, c - free) ELSE {v}
    IN  {Outcome(w, IF ~(w.cap - len >= c) THEN 94
                    ELSE IF ~(w.cap > 0) THEN 99
                    ELSE 0, 0) : w \in grown}

\* Views with max_len: capacity in place of len + capacity
ViewsMaxLenIsCapacity(v, c) ==
    LET len == VecLen(v) IN
    [init_slice |-> [ptr |-> v.ptr, len |-> len],
     start |-> len,
     max_len |-> c]

\* The views with_fixed_capacity returns on a Vec v that passed the asserts
Views(v, c) ==
    LET len == VecLen(v) IN
    [init_slice |-> [ptr |-> v.ptr, len |-> len],
     start |-> len,
     max_len |-> len + c]

--------------------------------------------------------------------------
(* FixedCapacityVec *)

\* additional_cap one too large
additional_cap_off_by_one(b) == max_len - VecLen(b) + 1

additional_cap(b) == max_len - VecLen(b)

\* extend_from_slice asserting other.len() < additional_cap()
extend_from_slice_strict(b, other) ==
    IF ~(Len(other) < max_len - VecLen(b))
    THEN {Outcome(b, 142, 0)}
    ELSE {Outcome(w, 0, Len(other)) : w \in VecExtendFromSlice(b, other)}

\* extend_from_slice copying what fits before it panics
extend_from_slice_partial(b, other) ==
    IF ~(Len(other) <= max_len - VecLen(b))
    THEN {Outcome(w, 142, 0) :
              w \in VecExtendFromSlice(b, SubSeq(other, 1, max_len - VecLen(b)))}
    ELSE {Outcome(w, 0, Len(other)) : w \in VecExtendFromSlice(b, other)}

extend_from_slice(b, other) ==
    IF ~(Len(other) <= additional_cap(b))
    THEN {Outcome(b, 142, 0)}
    ELSE {Outcome(w, 0, Len(other)) : w \in VecExtendFromSlice(b, other)}

\* Vec::insert(index, item) (std), index 0-based
VecInsert(v, index, item) ==
    {[w EXCEPT !.elems = SubSeq(@, 1, index) \o <<item>>
                         \o SubSeq(@, index + 1, Len(@))] :
        w \in VecReserve(v, 1)}

\* push inserting the item at start, the head of the write view
push_insert_at_start(b, item) ==
    IF ~(additional_cap(b) > 0)
    THEN {Outcome(b, 148, 0)}
    ELSE {Outcome(w, 0, 1) : w \in VecInsert(b, start, item)}

\* push inserting the item at the head of the buffer
push_front(b, item) ==
    IF ~(additional_cap(b) > 0)
    THEN {Outcome(b, 148, 0)}
    ELSE {Outcome(w, 0, 1) : w \in VecInsert(b, 0, item)}

\* push asserting after the item is in the buffer
push_then_assert(b, item) ==
    {Outcome(w, IF ~(max_len - VecLen(w) >= 0) THEN 148 ELSE 0, 1) :
        w \in VecPush(b, item)}

\* push asserting additional_cap() >= 0
push_accepts_full(b, item) ==
    IF ~(additional_cap(b) >= 0)
    THEN {Outcome(b, 148, 0)}
    ELSE {Outcome(w, 0, 1) : w \in VecPush(b, item)}

\* push without its assert
push_unchecked(b, item) == {Outcome(w, 0, 1) : w \in VecPush(b, item)}

push(b, item) ==
    IF ~(additional_cap(b) > 0)
    THEN {Outcome(b, 148, 0)}
    ELSE {Outcome(w, 0, 1) : w \in VecPush(b, item)}

\* The for loop of extend, n items into it
RECURSIVE ExtendLoop(_, _, _)
ExtendLoop(b, iter, n) ==
    IF iter = <<>>
    THEN {Outcome(b, 0, n)}
    ELSE IF ~(additional_cap(b) > 0)
         THEN {Outcome(b, 180, n)}
         ELSE UNION {ExtendLoop(w, Tail(iter), n + 1) : w \in VecPush(b, Head(iter))}

\* extend with the admission check of extend_from_slice
extend_atomic(b, iter) ==
    IF ~(Len(iter) <= additional_cap(b))
    THEN {Outcome(b, 180, 0)}
    ELSE ExtendLoop(b, iter, 0)

\* extend inserting every item at start instead of pushing it
RECURSIVE ExtendLoopInsert(_, _, _)
ExtendLoopInsert(b, iter, n) ==
    IF iter = <<>>
    THEN {Outcome(b, 0, n)}
    ELSE IF ~(additional_cap(b) > 0)
         THEN {Outcome(b, 180, n)}
         ELSE UNION {ExtendLoopInsert(
                         [w EXCEPT !.elems = SubSeq(@, 1, start) \o <<Head(iter)>>
                                             \o SubSeq(@, start + 1, Len(@))],
                         Tail(iter), n + 1) : w \in VecReserve(b, 1)}

extend_insert(b, iter) == ExtendLoopInsert(b, iter, 0)

extend(b, iter) == ExtendLoop(b, iter, 0)

\* deref over the whole buffer
DerefWholeBuffer == SliceIndex(buffer, 0, VecLen(buffer))

Deref == SliceIndex(buffer, start, VecLen(buffer))

DerefMut == SliceFrom(buffer, start)

\* as_ref is &self[..], all of deref's slice
AsRef == Deref

\* as_mut is &mut self[..], all of deref_mut's slice
AsMut == DerefMut

\* The indices the read view covers: len elements from the pointer it holds
ReadViewIndex == 0..(init_slice.len - 1)

\* What the read view reads.  It is a raw slice: once the Vec has moved to
\* another allocation the slice dangles and reads anything.
ReadViewContents ==
    IF init_slice.ptr = buffer.ptr /\ init_slice.len <= VecLen(buffer)
    THEN {SubSeq(buffer.elems, 1, init_slice.len)}
    ELSE [1..init_slice.len -> Items]

--------------------------------------------------------------------------
(* The program: a Vec, one split, calls on the write view, the drop *)

Call(op, arg) == [op |-> op, arg |-> arg, pre |-> buffer]

\* Before the split: a Vec of n elements with free unused slots
Unsplit(n, free) ==
    /\ buffer = [elems |-> InitBuffer(n), cap |-> n + free, ptr |-> 0]
    /\ start = 0
    /\ max_len = 0
    /\ init_slice = [ptr |-> 0, len |-> 0]
    /\ pc = "unsplit"
    /\ panic_line = 0
    /\ capacity = 0
    /\ split0 = buffer
    /\ appended = <<>>
    /\ last = Call("none", <<>>)
    /\ pushes = 0
    /\ only_push = TRUE
    /\ only_push_before = TRUE

Init == \E n \in 0..MaxInitLen, free \in 0..MaxInitFree : Unsplit(n, free)

\* with_fixed_capacity(c)
WithFixedCapacityOf(c) ==
    /\ pc = "unsplit"
    /\ \E r \in Reserved(buffer, c) :
        /\ capacity' = c
        /\ buffer' = r.buffer
        /\ panic_line' = r.panic_line
        /\ last' = Call("with_fixed_capacity", <<>>)
        /\ IF r.panic_line = 0
           THEN /\ init_slice' = Views(r.buffer, c).init_slice
                /\ start' = Views(r.buffer, c).start
                /\ max_len' = Views(r.buffer, c).max_len
                /\ split0' = r.buffer
                /\ pc' = "split"
           ELSE /\ UNCHANGED <<init_slice, start, max_len, split0>>
                /\ pc' = "panicked"
    /\ UNCHANGED <<appended, pushes, only_push, only_push_before>>

WithFixedCapacity == \E c \in 0..MaxCapacity : WithFixedCapacityOf(c)

\* The part of a write-view call common to push, extend_from_slice, extend
Returned(r, items) ==
    /\ buffer' = r.buffer
    /\ panic_line' = r.panic_line
    /\ pc' = IF r.panic_line = 0 THEN "split" ELSE "panicked"
    /\ appended' = appended \o SubSeq(items, 1, r.taken)
    /\ only_push_before' = only_push
    /\ UNCHANGED <<start, max_len, init_slice, capacity, split0>>

Push ==
    /\ pc = "split"
    /\ \E item \in Items : \E r \in push(buffer, item) :
        /\ Returned(r, <<item>>)
        /\ last' = Call("push", <<item>>)
    /\ pushes' = pushes + 1
    /\ UNCHANGED only_push

ExtendFromSlice ==
    /\ pc = "split"
    /\ \E other \in Batches : \E r \in extend_from_slice(buffer, other) :
        /\ Returned(r, other)
        /\ last' = Call("extend_from_slice", other)
    /\ only_push' = FALSE
    /\ UNCHANGED pushes

\* extend_from_slice(content), the read view as the slice (lib.rs:22)
ExtendFromReadView ==
    /\ pc = "split"
    /\ \E other \in ReadViewContents : \E r \in extend_from_slice(buffer, other) :
        /\ Returned(r, other)
        /\ last' = Call("extend_from_slice", other)
    /\ only_push' = FALSE
    /\ UNCHANGED pushes

Extend ==
    /\ pc = "split"
    /\ \E iter \in Batches : \E r \in extend(buffer, iter) :
        /\ Returned(r, iter)
        /\ last' = Call("extend", iter)
    /\ only_push' = FALSE
    /\ UNCHANGED pushes

\* The views go out of scope, at the end of their block or by the unwinding
\* of a panic of the write view
Drop ==
    /\ \/ pc = "split"
       \/ pc = "panicked" /\ panic_line \in {142, 148, 180}
    /\ pc' = "dropped"
    /\ last' = Call("drop", <<>>)
    /\ UNCHANGED <<buffer, start, max_len, init_slice, panic_line, capacity,
                   split0, appended, pushes, only_push, only_push_before>>

Next ==
    \/ WithFixedCapacity
    \/ Push
    \/ ExtendFromSlice
    \/ ExtendFromReadView
    \/ Extend
    \/ Drop

Spec == Init /\ [][Next]_vars

\* The crate example (lib.rs:12-29): vec![1, 2, 3, 4] split with capacity 5
InitRoundTrip == \E free \in 0..MaxInitFree : Unsplit(RoundTripLen, free)

WithFixedCapacityRoundTrip == WithFixedCapacityOf(RoundTripCapacity)

NextRoundTrip ==
    \/ WithFixedCapacityRoundTrip
    \/ Push
    \/ ExtendFromSlice
    \/ ExtendFromReadView
    \/ Extend
    \/ Drop

SpecRoundTrip == InitRoundTrip /\ [][NextRoundTrip]_vars

--------------------------------------------------------------------------
(* Properties *)

WriteCalls == {"push", "extend_from_slice", "extend"}

\* with_fixed_capacity has returned its views (they may be gone again)
HasSplit ==
    \/ pc \in {"split", "dropped"}
    \/ pc = "panicked" /\ panic_line \in {142, 148, 180}

\* What was left of the reserved capacity when the last call was made
RemainingBefore == max_len - VecLen(last.pre)

\* C1: once with_fixed_capacity(capacity) has returned on a buffer of length
\* n, start = n, max_len = n + capacity and start <= buffer.len() <= max_len
\* after every push, extend_from_slice and extend, panicking or not.
C1_LenWithinBounds ==
    HasSplit =>
        /\ start = VecLen(split0)
        /\ max_len = start + capacity
        /\ start <= VecLen(buffer)
        /\ VecLen(buffer) <= max_len

C1_Witness ==
    /\ pc = "panicked"
    /\ panic_line = 180
    /\ start > 0
    /\ start < max_len
    /\ VecLen(buffer) = max_len

\* C2: after the split no call on the write view changes the buffer's
\* allocated capacity or moves its allocation, and a call whose items do not
\* fit the allocation panics.
C2_NoReallocation ==
    HasSplit =>
        /\ buffer.cap = split0.cap
        /\ buffer.ptr = split0.ptr
        /\ (/\ last.op \in WriteCalls
            /\ VecLen(last.pre) + Len(last.arg) > last.pre.cap)
           => panic_line \in {142, 148, 180}

C2_Witness ==
    /\ pc = "split"
    /\ split0.ptr # 0
    /\ Len(appended) > 1
    /\ VecLen(buffer) = buffer.cap
    /\ buffer.ptr = split0.ptr

\* C3: when with_fixed_capacity(c) has returned and only push has been
\* called since, the first c pushes returned and the (c+1)-th panicked.
C3_CapacityCeiling ==
    (HasSplit /\ only_push /\ last.op = "push") =>
        /\ pushes <= capacity + 1
        /\ pushes <= capacity =>
               /\ panic_line = 0
               /\ VecLen(buffer) = start + pushes
        /\ pushes = capacity + 1 =>
               /\ panic_line = 148
               /\ VecLen(buffer) = start + capacity

C3_Witness ==
    /\ only_push
    /\ last.op = "push"
    /\ capacity > 1
    /\ pushes = capacity + 1
    /\ panic_line = 148

\* C4: extend_from_slice(items) with more items than max_len - buffer.len()
\* panics and leaves the buffer as it was; otherwise it appends all of
\* items in order.
C4_AtomicBatch ==
    last.op = "extend_from_slice" =>
        IF Len(last.arg) > RemainingBefore
        THEN /\ panic_line = 142
             /\ buffer = last.pre
        ELSE /\ panic_line = 0
             /\ buffer.elems = last.pre.elems \o last.arg

C4_Witness ==
    /\ last.op = "extend_from_slice"
    /\ panic_line = 142
    /\ RemainingBefore > 0
    /\ Len(last.arg) > RemainingBefore
    /\ buffer = last.pre

\* C5: extend(producer) with k items, k > r = max_len - buffer.len(), panics
\* when exactly the first r items have been appended (buffer.len() = max_len).
C5_PerElementAdmission ==
    (last.op = "extend" /\ Len(last.arg) > RemainingBefore) =>
        /\ panic_line = 180
        /\ buffer.elems = last.pre.elems \o SubSeq(last.arg, 1, RemainingBefore)
        /\ VecLen(buffer) = max_len

C5_Witness ==
    /\ last.op = "extend"
    /\ panic_line = 180
    /\ RemainingBefore > 0
    /\ VecLen(buffer) = VecLen(last.pre) + RemainingBefore

\* C6: when the views are dropped the buffer holds its contents at the split
\* followed by the items appended through the write view, in append order.
C6_FinalContents ==
    pc = "dropped" => buffer.elems = split0.elems \o appended

C6_Witness ==
    /\ pc = "dropped"
    /\ start > 1
    /\ Len(appended) > 2
    /\ pushes > 0
    /\ ~only_push
    /\ \E i \in 1..(Len(appended) - 1) : appended[i] # appended[i + 1]

\* C7: after a split the read view covers the indices [0, start), the write
\* view's slices (deref, deref_mut, as_ref, as_mut) cover [start, len), and
\* the two ranges are disjoint.
C7_RangeNonOverlap ==
    HasSplit =>
        /\ init_slice.ptr = buffer.ptr
        /\ ReadViewIndex = 0..(start - 1)
        /\ \A view \in {Deref, DerefMut, AsRef, AsMut} :
               /\ ~view.panic
               /\ view.idx = start..(VecLen(buffer) - 1)
               /\ view.idx \cap ReadViewIndex = {}

C7_Witness ==
    /\ pc = "split"
    /\ start > 1
    /\ VecLen(buffer) > start + 1
    /\ VecLen(buffer) < max_len

\* C8: when with_fixed_capacity(capacity) returns on a buffer of length n,
\* the allocation has at least capacity free slots, length and elements are
\* unchanged, the read view is buffer[0..n], start = n, max_len = n + capacity
\* and the write view's slice is empty.
C8_SplitPostcondition ==
    (last.op = "with_fixed_capacity" /\ pc = "split") =>
        LET n == VecLen(last.pre) IN
        /\ buffer.cap - n >= capacity
        /\ buffer.elems = last.pre.elems
        /\ init_slice = [ptr |-> buffer.ptr, len |-> n]
        /\ ReadViewContents = {last.pre.elems}
        /\ start = n
        /\ max_len = n + capacity
        /\ ~Deref.panic
        /\ Deref.idx = {}

C8_Witness ==
    /\ last.op = "with_fixed_capacity"
    /\ pc = "split"
    /\ VecLen(last.pre) > 1
    /\ capacity > 1
    /\ buffer.ptr # last.pre.ptr

\* with_fixed_capacity(0) was called on an empty buffer
ZeroCapacitySplit ==
    /\ last.op = "with_fixed_capacity"
    /\ VecLen(last.pre) = 0
    /\ capacity = 0

\* C9 as claimed: with_fixed_capacity(0) on an empty buffer fails at the
\* degenerate-allocation check, whatever the buffer has allocated.
C9_Original ==
    ZeroCapacitySplit => (pc = "panicked" /\ panic_line = 99)

\* C9: with_fixed_capacity(0) on an empty buffer fails at the
\* degenerate-allocation check when the buffer holds no allocation
\* (capacity() = 0, as Vec::new()); on an empty buffer that has allocated it
\* returns the views, with start = max_len = 0 and the buffer untouched.
C9_ZeroCapacitySplit ==
    ZeroCapacitySplit =>
        IF last.pre.cap = 0
        THEN pc = "panicked" /\ panic_line = 99 /\ buffer = last.pre
        ELSE /\ pc \in {"split", "dropped"}
             /\ panic_line = 0
             /\ start = 0
             /\ max_len = 0
             /\ buffer = last.pre

C9_Witness ==
    /\ ZeroCapacitySplit
    /\ last.pre.cap = 0
    /\ pc = "panicked"
    /\ panic_line = 99

\* The round trip of lib.rs:12-22: vec![1, 2, 3, 4], with_fixed_capacity(5),
\* push(4), then extend_from_slice(content)
RoundTrip ==
    /\ HasSplit
    /\ split0.elems = InitBuffer(RoundTripLen)
    /\ capacity = RoundTripCapacity
    /\ pushes = 1
    /\ only_push_before
    /\ last.op = "extend_from_slice"
    /\ last.pre.elems = <<1, 2, 3, 4, 4>>
    /\ last.arg = <<1, 2, 3, 4>>

\* C10 as claimed: in the round trip only 1 of the 5 reserved slots remains
\* after the push, so extend_from_slice(content) panics and appends nothing.
C10_Original ==
    RoundTrip =>
        /\ RemainingBefore = 1
        /\ panic_line = 142
        /\ buffer.elems = last.pre.elems

\* C10: in the round trip 4 of the 5 reserved slots remain after the push,
\* so extend_from_slice(content) returns and the buffer becomes
\* [1, 2, 3, 4, 4, 1, 2, 3, 4], with no reserved slot left.
C10_RoundTrip ==
    RoundTrip =>
        /\ RemainingBefore = 4
        /\ panic_line = 0
        /\ buffer.elems = <<1, 2, 3, 4, 4, 1, 2, 3, 4>>
        /\ additional_cap(buffer) = 0

C10_Witness ==
    /\ RoundTrip
    /\ pc = "split"
    /\ Deref.idx = 4..8

\* C11: a push(item) made with max_len - buffer.len() > 0 returns, grows
\* buffer.len() by 1, shrinks the remaining capacity by 1, and puts item last
\* in the write view's slice, the earlier elements unchanged.
C11_PushAppendsOne ==
    (last.op = "push" /\ RemainingBefore > 0) =>
        /\ panic_line = 0
        /\ VecLen(buffer) = VecLen(last.pre) + 1
        /\ additional_cap(buffer) = RemainingBefore - 1
        /\ ~Deref.panic
        /\ VecLen(buffer) - 1 \in Deref.idx
        /\ buffer.elems[VecLen(buffer)] = last.arg[1]
        /\ SubSeq(buffer.elems, 1, VecLen(last.pre)) = last.pre.elems

C11_Witness ==
    /\ last.op = "push"
    /\ pc = "split"
    /\ VecLen(last.pre) > start
    /\ last.pre.elems[VecLen(last.pre)] # last.arg[1]
    /\ buffer.elems[VecLen(buffer)] = last.arg[1]
    /\ additional_cap(buffer) > 0

\* C12 as claimed: the assert of lib.rs:99 never fails, for any buffer and
\* any requested capacity.
C12_Original ==
    last.op = "with_fixed_capacity" => panic_line # 99

\* C12: the assert of lib.rs:99 fails exactly when a buffer that holds no
\* allocation is split with capacity 0 (no reservation is made then); for
\* every other buffer and capacity the buffer holds a non-empty allocation
\* after the reservation step and the assert passes.
C12_DegenerateCheck ==
    last.op = "with_fixed_capacity" =>
        /\ panic_line = 99 <=> (last.pre.cap = 0 /\ capacity = 0)
        /\ (last.pre.cap > 0 \/ capacity > 0) => buffer.cap > 0
        /\ panic_line = 0 => buffer.cap > 0

C12_Witness ==
    /\ last.op = "with_fixed_capacity"
    /\ last.pre.cap = 0
    /\ capacity > 0
    /\ pc = "split"
    /\ buffer.cap >= capacity

\* C13: no call on the write view changes an element at an index in
\* [0, start): the read view keeps reading the split-time values.
C13_PrefixUntouched ==
    HasSplit =>
        /\ SubSeq(buffer.elems, 1, start) = split0.elems
        /\ ReadViewContents = {split0.elems}

C13_Witness ==
    /\ pc = "dropped"
    /\ start > 1
    /\ panic_line = 142
    /\ pushes > 0
    /\ Len(appended) > 1
    /\ SubSeq(buffer.elems, 1, start) = InitBuffer(start)

\* The free space of the buffer with_fixed_capacity was called on
FreeBefore == last.pre.cap - VecLen(last.pre)

\* C14: with_fixed_capacity(capacity) changes the allocation only when the
\* free space is less than capacity, and then once; with free space >=
\* capacity the allocation after the call is the one before it.
C14_ReservesOnlyOnShortfall ==
    last.op = "with_fixed_capacity" =>
        /\ FreeBefore >= capacity =>
               (buffer.cap = last.pre.cap /\ buffer.ptr = last.pre.ptr)
        /\ (buffer.cap # last.pre.cap \/ buffer.ptr # last.pre.ptr) =>
               /\ FreeBefore < capacity
               /\ buffer.ptr = last.pre.ptr + 1
               /\ buffer.cap > last.pre.cap
        /\ buffer.elems = last.pre.elems

C14_Witness ==
    /\ last.op = "with_fixed_capacity"
    /\ pc = "split"
    /\ capacity > 0
    /\ FreeBefore >= capacity
    /\ VecLen(last.pre) > 0
    /\ buffer = last.pre

\* C15: after a split max_len <= the buffer's allocated capacity, and start
\* and max_len keep the values the split gave them.
C15_MaxLenWithinAllocation ==
    HasSplit =>
        /\ max_len <= buffer.cap
        /\ start = Views(split0, capacity).start
        /\ max_len = Views(split0, capacity).max_len

C15_Witness ==
    /\ pc = "split"
    /\ split0.cap > VecLen(split0) + capacity
    /\ VecLen(buffer) = max_len
    /\ max_len < buffer.cap
    /\ capacity > 1

\* push called on each item of iter in order, up to the first one that panics
RECURSIVE PushEach(_, _)
PushEach(b, iter) ==
    IF iter = <<>>
    THEN {Outcome(b, 0, 0)}
    ELSE UNION {IF r.panic_line # 0 THEN {r} ELSE PushEach(r.buffer, Tail(iter)) :
                    r \in push(b, Head(iter))}

\* The buffers a set of outcomes leaves, each with whether the call panicked
Effects(outcomes) ==
    {[buffer |-> r.buffer, panicked |-> r.panic_line # 0] : r \in outcomes}

\* C16: extend(iter) leaves what push on each item in order leaves, the
\* point of failure included; and for s with s.len() <= max_len -
\* buffer.len(), extend_from_slice(s), extend(s) and the pushes of s leave
\* the same buffer and the same remaining capacity.
C16_ExtendIsPushEach ==
    /\ last.op = "extend" =>
           [buffer |-> buffer, panicked |-> panic_line # 0]
               \in Effects(PushEach(last.pre, last.arg))
    /\ pc = "split" =>
           \A s \in Batches :
               /\ Effects(extend(buffer, s)) = Effects(PushEach(buffer, s))
               /\ Len(s) <= additional_cap(buffer) =>
                      /\ Effects(extend_from_slice(buffer, s))
                             = Effects(extend(buffer, s))
                      /\ \A e \in Effects(extend(buffer, s)) :
                             /\ ~e.panicked
                             /\ e.buffer.elems = buffer.elems \o s
                             /\ additional_cap(e.buffer)
                                    = additional_cap(buffer) - Len(s)

C16_Witness ==
    /\ pc = "split"
    /\ last.op = "extend"
    /\ Len(last.arg) > 1
    /\ additional_cap(buffer) = 1
    /\ buffer.elems = last.pre.elems \o last.arg

\* C17: a push made with max_len - buffer.len() = 0 panics and leaves the
\* buffer's length, contents and allocation and the view's start and max_len
\* as they were.
C17_FailedPushChangesNothing ==
    (last.op = "push" /\ RemainingBefore = 0) =>
        /\ panic_line = 148
        /\ pc = "panicked"
        /\ buffer = last.pre
        /\ start = VecLen(split0)
        /\ max_len = VecLen(split0) + capacity

C17_Witness ==
    /\ last.op = "push"
    /\ panic_line = 148
    /\ ~only_push
    /\ VecLen(buffer) > start
    /\ buffer = last.pre
    /\ buffer.cap > max_len

====
